---- MODULE Spec2Model ----
(***************************************************************************)
(* State-machine model of the napari-1d / napari-plot layers:              *)
(*   Region    (src/napari_1d/layers/region/region.py)                     *)
(*   Centroids (src/napari_plot/layers/centroids/centroids.py)             *)
(*                                                                         *)
(* A layer method is one action.  The action records the call in `op`,     *)
(* the exception that left the method (or "none") in `err`, and the events *)
(* the method emitted, in order, in `events`.  Python indices are 0-based; *)
(* the sequences below are 1-based, so region i lives at position i + 1.   *)
(* Calls into the host framework that touch no attribute set in these      *)
(* files (_update_dims, refresh, _set_editable) are not modelled.          *)
(***************************************************************************)
EXTENDS Integers, Sequences, FiniteSets, TLC

\* ------------------------------------------------------------------ bounds
\* Largest number of regions / centroids a layer holds in the model.
MaxRegions == 3
\* z-indices stay within -MaxZ .. MaxZ (move_to_front / move_to_back are
\* disabled when they would leave the range).
MaxZ == 2
\* Largest batch handed to Region.add, and longest list argument.
MaxAdd == 2
\* Largest number of centroids a Centroids layer holds.
MaxCentroids == 3
\* Deepest nesting of block_thumbnail_update contexts.
MaxBlockDepth == 2
\* cursor-position events of one behaviour
MaxMoves == 4

\* ----------------------------------------------------------- value domains
Orientations == {"vertical", "horizontal"}
Widths == {1, 2}
Colors == {"red", "white", "blue"}
ZArgs == {-1, 0, 1}

\* -------------------------------------------------------------- arguments
\* A Python argument is None, a scalar or a list.
NoneArg == [kind |-> "none"]
Scalar(x) == [kind |-> "scalar", val |-> x]
List(s) == [kind |-> "list", val |-> s]

IsList(a) == a.kind = "list"
IsNone(a) == a.kind = "none"

SeqsOfLen(S, n) == [1..n -> S]
SeqsUpTo(S, n) == UNION {SeqsOfLen(S, k) : k \in 0..n}

SetMax(S) == CHOOSE x \in S : \A y \in S : y <= x
SetMin(S) == CHOOSE x \in S : \A y \in S : x <= y
MinOf(a, b) == IF a <= b THEN a ELSE b

\* napari.utils.misc.ensure_iterable inside zip(): a list is consumed element
\* by element, anything else is repeated.  (ElemFirst: a list treated like a
\* scalar, its first element repeated.)
ElemFirst(a, i) == IF IsList(a) THEN a.val[1] ELSE a.val
Elem(a, i) == IF IsList(a) THEN a.val[i] ELSE a.val
\* number of tuples zip() yields for k data items and the given arguments
ZipLen(k, args) ==
    LET lens == {k} \cup {Len(args[j].val) : j \in {i \in DOMAIN args : IsList(args[i])}}
    IN  SetMin(lens)

\* -------------------------------------------------------------- RegionList
\* _data_view: the regions, and the two colour arrays kept beside them.
EmptyRegionList == [regions |-> <<>>, edge_color |-> <<>>, face_color |-> <<>>]

NRegions(dv) == Len(dv.regions)
EdgeWidths(dv) == [i \in 1..NRegions(dv) |-> dv.regions[i].edge_width]
ZIndices(dv) == [i \in 1..NRegions(dv) |-> dv.regions[i].z_index]
OrientationList(dv) == [i \in 1..NRegions(dv) |-> dv.regions[i].orientation]
DataList(dv) == [i \in 1..NRegions(dv) |-> dv.regions[i].data]
ZSet(dv) == {dv.regions[i].z_index : i \in 1..NRegions(dv)}

RemoveAt(s, i) == [j \in 1..(Len(s) - 1) |-> IF j < i THEN s[j] ELSE s[j + 1]]

\* RegionList.add(region, edge_color=, face_color=)
ListAdd(dv, region, ec, fc) ==
    [regions |-> Append(dv.regions, region),
     edge_color |-> Append(dv.edge_color, ec),
     face_color |-> Append(dv.face_color, fc)]

\* RegionList.remove(index): drops the region, not its colours
ListRemove(dv, index) ==
    [dv EXCEPT !.regions = RemoveAt(dv.regions, index + 1)]

\* RegionList.update_edge_width(index, width)
ListUpdateEdgeWidth(dv, index, width) ==
    [dv EXCEPT !.regions[index + 1].edge_width = width]

\* RegionList.update_z_index(index, z_index)
ListUpdateZIndex(dv, index, z) ==
    [dv EXCEPT !.regions[index + 1].z_index = z]

\* ------------------------------------------------------------------- state
VARIABLES
    data_view,              \* Region._data_view
    selected_data,          \* Region._selected_data
    current_edge_width,     \* Region._current_edge_width
    current_edge_color,     \* Region._current_edge_color
    current_face_color,     \* Region._current_face_color
    allow_thumbnail_update, \* Region._allow_thumbnail_update
    block_depth,            \* block_thumbnail_update contexts entered, not left
    centroids_data,         \* Centroids._data
    centroids_color,        \* Centroids._color
    mode,                   \* Region._mode
    interactive,            \* Region.interactive
    help,                   \* Region.help
    selected_data_stored,   \* Region._selected_data_stored
    hover_value,            \* Region._value
    value_stored,           \* Region._value_stored
    drag_box,               \* Region._drag_box
    drag_box_stored,        \* Region._drag_box_stored
    is_selecting,           \* Region._is_selecting
    selected_box,           \* Region._selected_box
    highlighted,            \* selected_data, _value, _drag_box at the last highlight event
    cursor_callbacks,       \* callbacks connected to viewer.cursor.events.position
    triggered_callbacks,    \* callbacks connected to status_throttler.triggered
    timer_left,             \* status_throttler's timer: time to its timeout, or Inactive
    has_pending,            \* status_throttler._hasPendingEmission
    since_update,           \* time since the last status update, capped at the timeout
    n_moves,                \* cursor-position events so far
    status_calls,           \* how the status handler was invoked: "direct" / "throttler"
    op,                     \* the last call
    err,                    \* the exception it raised, or "none"
    events                  \* the events it emitted

regionVars == <<data_view, selected_data, current_edge_width, current_edge_color,
                current_face_color, allow_thumbnail_update, block_depth>>
centroidVars == <<centroids_data, centroids_color>>
modeVars == <<mode, interactive, help>>
storedVars == <<selected_data_stored, value_stored, drag_box_stored, highlighted>>
dragVars == <<hover_value, drag_box, is_selecting, selected_box>>
highlightVars == <<modeVars, storedVars, dragVars>>
windowVars == <<cursor_callbacks, triggered_callbacks, timer_left, has_pending,
                since_update, n_moves, status_calls>>
vars == <<regionVars, centroidVars, highlightVars, windowVars, op, err, events>>

\* ------------------------------------------------- Region.edge_width setter
\* for i, width in enumerate(widths): self._data_view.update_edge_width(i, width)
RECURSIVE UpdateEdgeWidths(_, _, _)
UpdateEdgeWidths(dv, width, i) ==
    IF i >= NRegions(dv) THEN dv
    ELSE UpdateEdgeWidths(ListUpdateEdgeWidth(dv, i, Elem(width, i + 1)), width, i + 1)

\* for i, z_idx in enumerate(z_indices): self._data_view.update_z_index(i, z_idx)
RECURSIVE UpdateZIndices(_, _, _)
UpdateZIndices(dv, z, i) ==
    IF i >= NRegions(dv) THEN dv
    ELSE UpdateZIndices(ListUpdateZIndex(dv, i, Elem(z, i + 1)), z, i + 1)

\* a setter that writes the entries it has before noticing the length
EdgeWidthSetterLateCheck(dv, width) ==
    IF IsList(width) /\ Len(width.val) # NRegions(dv)
    THEN [err |-> "ValueError",
          dv |-> [dv EXCEPT !.regions =
                    [i \in 1..NRegions(dv) |->
                        IF i <= Len(width.val)
                        THEN [dv.regions[i] EXCEPT !.edge_width = width.val[i]]
                        ELSE dv.regions[i]]]]
    ELSE [err |-> "none", dv |-> UpdateEdgeWidths(dv, width, 0)]

EdgeWidthSetter(dv, width) ==
    IF IsList(width) /\ Len(width.val) # NRegions(dv)
    THEN [err |-> "ValueError", dv |-> dv]
    ELSE [err |-> "none", dv |-> UpdateEdgeWidths(dv, width, 0)]

ZIndexSetter(dv, z) ==
    IF IsList(z) /\ Len(z.val) # NRegions(dv)
    THEN [err |-> "ValueError", dv |-> dv]
    ELSE [err |-> "none", dv |-> UpdateZIndices(dv, z, 0)]

\* ------------------------------------------------------------ colour helpers
\* transform_color_with_defaults + normalize_and_broadcast_colors, as the
\* layer calls them: one colour is tiled to n rows, n rows are kept, and any
\* other number of rows is replaced by n white rows (with a warning).
BroadcastColors(n, c) ==
    IF ~IsList(c) THEN [i \in 1..n |-> c.val]
    ELSE IF Len(c.val) = n THEN c.val
    ELSE IF Len(c.val) = 1 THEN [i \in 1..n |-> c.val[1]]
    ELSE [i \in 1..n |-> "white"]

\* Region._initialize_color
InitializeColor(color, n_regions) ==
    IF n_regions > 0 THEN BroadcastColors(n_regions, color) ELSE <<>>

\* Region._get_new_region_color: np.tile(current colour, (adding, 1))
GetNewRegionColor(cur, adding, attribute) ==
    [i \in 1..adding |->
        IF attribute = "edge" THEN cur.edge_color ELSE cur.face_color]

\* extract_region_orientation(data, orientation): the data stripped of the
\* orientation its items carry, and that orientation (else the one passed in)
ExtractRegionOrientation(data, orientation) ==
    [items |-> data.items,
     orientation |-> IF IsNone(data.orientation) THEN orientation
                     ELSE data.orientation]

\* -------------------------------------------------------------- Region.add
\* `z_index or max(self._data_view._z_index, default=-1) + 1`: None, 0 and
\* the empty list are falsy.
Falsy(z) ==
    \/ IsNone(z)
    \/ z.kind = "scalar" /\ z.val = 0
    \/ IsList(z) /\ Len(z.val) = 0

ZIndexOrNext(z, dv) ==
    IF Falsy(z)
    THEN Scalar((IF ZSet(dv) = {} THEN -1 ELSE SetMax(ZSet(dv))) + 1)
    ELSE z

\* Region._add_regions_to_view: one region per tuple of the zip, added to
\* the data view in turn
RECURSIVE AddTuples(_, _, _, _, _, _, _, _, _)
AddTuples(dv, items, orientation, edge_width, ec, fc, z, i, n) ==
    IF i > n THEN dv
    ELSE AddTuples(ListAdd(dv,
                           [data |-> items[i],
                            orientation |-> Elem(orientation, i),
                            edge_width |-> Elem(edge_width, i),
                            z_index |-> Elem(z, i)],
                           ec[i], fc[i]),
                   items, orientation, edge_width, ec, fc, z, i + 1, n)

AddRegionsToView(dv, items, orientation, edge_width, ec, fc, z) ==
    AddTuples(dv, items, orientation, edge_width, ec, fc, z, 1,
              ZipLen(Len(items), <<orientation, edge_width, z>>))

\* Region._add_regions
AddRegions(dv, cur, items, orientation, edge_width, edge_color, face_color, z_index) ==
    LET ew == IF IsNone(edge_width) THEN Scalar(cur.edge_width) ELSE edge_width
        ec == IF IsNone(edge_color) THEN Scalar(cur.edge_color) ELSE edge_color
        fc == IF IsNone(face_color) THEN Scalar(cur.face_color) ELSE face_color
        z  == ZIndexOrNext(z_index, dv)
    IN  IF Len(items) > 0
        THEN AddRegionsToView(dv, items, orientation, ew,
                              BroadcastColors(Len(items), ec),
                              BroadcastColors(Len(items), fc), z)
        ELSE dv

DataEvent(dv) == [name |-> "data", value |-> DataList(dv)]
PlainEvent(n) == [name |-> n, value |-> <<>>]

\* Region.add: the orientation handed on is the keyword, whatever the data
\* items carry (the extracted one is dropped).
RegionAdd(dv, cur, data, orientation, edge_width, edge_color, face_color, z_index) ==
    LET ex == ExtractRegionOrientation(data, orientation)
        k  == Len(ex.items)
        ew == IF IsNone(edge_width) THEN Scalar(cur.edge_width) ELSE edge_width
        ec == IF IsNone(edge_color)
              THEN List(GetNewRegionColor(cur, k, "edge")) ELSE edge_color
        fc == IF IsNone(face_color)
              THEN List(GetNewRegionColor(cur, k, "face")) ELSE face_color
        z  == ZIndexOrNext(z_index, dv)
        dv2 == AddRegions(dv, cur, ex.items, orientation, ew, ec, fc, z)
    IN  IF k > 0
        THEN [err |-> "none", dv |-> dv2, events |-> <<DataEvent(dv2)>>]
        ELSE [err |-> "none", dv |-> dv, events |-> <<>>]

\* ---------------------------------------------------------- Region.__init__
\* The layer as __init__ leaves it.
Construct(data, orientation, edge_width, edge_color, face_color, z_index) ==
    LET ex == ExtractRegionOrientation(data, orientation)
        k  == Len(ex.items)
        cew == IF edge_width.kind = "scalar" THEN edge_width.val ELSE 1
        cur0 == [edge_width |-> cew, edge_color |-> "black", face_color |-> "black"]
        dv == AddRegions(EmptyRegionList, cur0, ex.items, ex.orientation, edge_width,
                         List(InitializeColor(edge_color, k)),
                         List(InitializeColor(face_color, k)), z_index)
    IN  [data_view |-> dv,
         current_edge_width |-> cew,
         current_edge_color |-> IF k > 0 THEN dv.edge_color[Len(dv.edge_color)]
                                ELSE edge_color.val,
         current_face_color |-> IF k > 0 THEN dv.face_color[Len(dv.face_color)]
                                ELSE face_color.val]

\* ------------------------------------------------ Region mode and highlight
\* Python's None
None == "None"
\* Mode of _region_constants, by value
Modes == {"pan_zoom", "select", "add", "move"}

\* The part of a layer the mode setter and _set_highlight read and write.
HighlightState(m, sel, inter, hlp, sel_stored, val, val_stored, box, box_stored) ==
    [mode |-> m, selected_data |-> sel, interactive |-> inter, help |-> hlp,
     selected_data_stored |-> sel_stored, value |-> val, value_stored |-> val_stored,
     drag_box |-> box, drag_box_stored |-> box_stored]

\* what _set_highlight compares: selected_data, _value, _drag_box
Shown(hs) == <<hs.selected_data, hs.value, hs.drag_box>>
Stored(hs) == <<hs.selected_data_stored, hs.value_stored, hs.drag_box_stored>>

StoreAndEmit(hs) ==
    [hs |-> [hs EXCEPT !.selected_data_stored = hs.selected_data,
                       !.value_stored = hs.value,
                       !.drag_box_stored = hs.drag_box],
     events |-> <<PlainEvent("highlight")>>]

SetHighlightAlways(hs, force) == StoreAndEmit(hs)
\* Region._set_highlight(force)
SetHighlight(hs, force) ==
    IF Shown(hs) = Stored(hs) /\ ~force
    THEN [hs |-> hs, events |-> <<>>]
    ELSE StoreAndEmit(hs)

ModeSetterUnchanged(hs, m) == [hs |-> hs, events |-> <<>>]
\* Region.mode setter.  _mode_setter_helper reports `changed` when the mode
\* asked for is not the current one.
ModeSetter(hs, m) ==
    IF m = hs.mode
    THEN [hs |-> hs, events |-> <<>>]
    ELSE LET h1 == IF m = "add"
                   THEN [hs EXCEPT !.selected_data = {}, !.interactive = FALSE]
                   ELSE hs
             h2 == IF m = "pan_zoom"
                   THEN [h1 EXCEPT !.help = "", !.interactive = TRUE]
                   ELSE [h1 EXCEPT !.help = "Hold <space> to pan/zoom."]
             h3 == IF m # "select" \/ hs.mode # "select"
                   THEN [h2 EXCEPT !.selected_data_stored = {}]
                   ELSE h2
             r  == SetHighlight([h3 EXCEPT !.mode = m], FALSE)
         IN  [hs |-> r.hs,
              events |-> r.events \o <<[name |-> "mode", value |-> <<m>>]>>]

\* Region.__init__: the fields as assigned, then self.mode = Mode.PAN_ZOOM
\* on a layer whose _mode is Mode.SELECT.  The base Layer starts interactive
\* with an empty help.
ConstructedHighlight ==
    ModeSetter(HighlightState("select", {}, TRUE, "", {}, <<None, None>>,
                              <<None, None>>, None, None),
               "pan_zoom").hs

\* Region._compute_vertices_and_box.  Widths are in tenths: 15 is 1.5.
\* _selected_box is subscripted as it is; _highlight_color is the host's.
ComputeVerticesAndBox(m, sel, selecting, box, dbox) ==
    IF sel # {}
    THEN IF m = "select"
         THEN IF box = None
              THEN [err |-> "TypeError", shows |-> "nothing", width |-> 0]
              ELSE [err |-> "none", shows |-> "selected_box", width |-> 15]
         ELSE [err |-> "none", shows |-> "nothing", width |-> 0]
    ELSE IF selecting
         THEN [err |-> "none", shows |-> "drag_box", width |-> 15]
         ELSE [err |-> "none", shows |-> "nothing", width |-> 0]

\* ------------------------------------------------------- status throttler
\* self.status_throttler.setTimeout(50), in ms
Timeout == 50
\* the throttler's timer is not running
Inactive == -1

\* no main window has been built
NoWindow ==
    /\ cursor_callbacks = {}
    /\ triggered_callbacks = {}
    /\ timer_left = Inactive
    /\ has_pending = FALSE
    /\ since_update = Timeout
    /\ n_moves = 0
    /\ status_calls = <<>>

Cur == [edge_width |-> current_edge_width,
        edge_color |-> current_edge_color,
        face_color |-> current_face_color]

PlainData(items) == [items |-> items, orientation |-> NoneArg]

\* The Region layer starts as constructed from `layer`; the Centroids layer
\* is empty.
InitRegion(layer) ==
    /\ data_view = layer.data_view
    /\ current_edge_width = layer.current_edge_width
    /\ current_edge_color = layer.current_edge_color
    /\ current_face_color = layer.current_face_color
    /\ selected_data = ConstructedHighlight.selected_data
    /\ mode = ConstructedHighlight.mode
    /\ interactive = ConstructedHighlight.interactive
    /\ help = ConstructedHighlight.help
    /\ selected_data_stored = ConstructedHighlight.selected_data_stored
    /\ hover_value = ConstructedHighlight.value
    /\ value_stored = ConstructedHighlight.value_stored
    /\ drag_box = ConstructedHighlight.drag_box
    /\ drag_box_stored = ConstructedHighlight.drag_box_stored
    /\ highlighted = Shown(ConstructedHighlight)
    /\ is_selecting = FALSE
    /\ selected_box = None
    /\ allow_thumbnail_update = TRUE
    /\ block_depth = 0
    /\ op = [name |-> "init"]
    /\ err = "none"
    /\ events = <<>>

InitFrom(layer) ==
    /\ InitRegion(layer)
    /\ NoWindow
    /\ centroids_data = <<>>
    /\ centroids_color = <<>>

\* Region(None)
InitRegionEmpty ==
    InitRegion(Construct([items |-> <<>>, orientation |-> NoneArg], Scalar("vertical"),
                         Scalar(1), Scalar("red"), Scalar("white"), Scalar(0)))

\* ------------------------------------------- edge_width / z_index assignment
\* Region(data) with the signature's defaults, for 0..MaxRegions regions
DefaultLayers ==
    {Construct(PlainData([i \in 1..k |-> i]), Scalar("vertical"), Scalar(1),
               Scalar("red"), Scalar("white"), Scalar(0)) : k \in 0..MaxRegions}

WidthArgs == {Scalar(w) : w \in Widths} \cup {List(s) : s \in SeqsUpTo(Widths, MaxRegions)}
ZIndexArgs == {Scalar(z) : z \in {0, 1}} \cup {List(s) : s \in SeqsUpTo({0, 1}, MaxRegions)}

InitAttr == \E layer \in DefaultLayers : InitFrom(layer)

SetEdgeWidth ==
    \E width \in WidthArgs :
        LET r == EdgeWidthSetter(data_view, width)
        IN  /\ data_view' = r.dv
            /\ err' = r.err
            /\ op' = [name |-> "edge_width", arg |-> width]
            /\ events' = <<>>
            /\ UNCHANGED <<selected_data, current_edge_width, current_edge_color,
                           current_face_color, allow_thumbnail_update, block_depth,
                           centroidVars, highlightVars, windowVars>>

SetZIndex ==
    \E z \in ZIndexArgs :
        LET r == ZIndexSetter(data_view, z)
        IN  /\ data_view' = r.dv
            /\ err' = r.err
            /\ op' = [name |-> "z_index", arg |-> z]
            /\ events' = <<>>
            /\ UNCHANGED <<selected_data, current_edge_width, current_edge_color,
                           current_face_color, allow_thumbnail_update, block_depth,
                           centroidVars, highlightVars, windowVars>>

NextAttr == SetEdgeWidth \/ SetZIndex

SpecAttr == InitAttr /\ [][NextAttr]_vars

\* C1: assigning to edge_width or z_index a list whose length differs from
\* n_regions raises ValueError and changes no region's edge width or z-index
\* (nor anything else of the data view).
MismatchedAssignmentRejected ==
    [][(/\ op'.name \in {"edge_width", "z_index"}
        /\ IsList(op'.arg)
        /\ Len(op'.arg.val) # NRegions(data_view))
       => (/\ err' = "ValueError"
           /\ EdgeWidths(data_view') = EdgeWidths(data_view)
           /\ ZIndices(data_view') = ZIndices(data_view)
           /\ data_view' = data_view)]_vars

\* a rejected assignment on a layer whose regions hold non-default values
MismatchedAssignmentSeen ==
    /\ err = "ValueError"
    /\ op.name \in {"edge_width", "z_index"}
    /\ IsList(op.arg) /\ Len(op.arg.val) > 0
    /\ NRegions(data_view) >= 2
    /\ \E i \in 1..NRegions(data_view) :
          data_view.regions[i].edge_width = 2 /\ data_view.regions[i].z_index = 1

\* ------------------------------------------------------- constructed layers
\* Per-region constructor arguments the layers of the model are built from.
StyleCycle ==
    <<[orientation |-> "vertical", edge_width |-> 1, z_index |-> 0,
       edge_color |-> "red", face_color |-> "white"],
      [orientation |-> "horizontal", edge_width |-> 2, z_index |-> 1,
       edge_color |-> "blue", face_color |-> "red"],
      [orientation |-> "vertical", edge_width |-> 2, z_index |-> -2,
       edge_color |-> "white", face_color |-> "blue"]>>

Styles == {StyleCycle[i] : i \in DOMAIN StyleCycle}

\* Region(data, orientation=[..], edge_width=[..], edge_color=[..],
\*        face_color=[..], z_index=[..]) with one style per region
StyledLayer(st) ==
    LET k == Len(st)
    IN  IF k = 0
        THEN Construct(PlainData(<<>>), Scalar("vertical"), Scalar(1),
                       Scalar("red"), Scalar("white"), Scalar(0))
        ELSE Construct(PlainData([i \in 1..k |-> i]),
                       List([i \in 1..k |-> st[i].orientation]),
                       List([i \in 1..k |-> st[i].edge_width]),
                       List([i \in 1..k |-> st[i].edge_color]),
                       List([i \in 1..k |-> st[i].face_color]),
                       List([i \in 1..k |-> st[i].z_index]))

StyledLayers == {StyledLayer(st) : st \in SeqsUpTo(Styles, MaxRegions)}

\* ------------------------------------------------------ Region.data setter
\* data items of a new assignment / a new batch
NewItems(k) == [i \in 1..k |-> 10 + i]

DataSetter(dv, cur, data) ==
    LET ex == ExtractRegionOrientation(data, NoneArg)
        m == Len(ex.items)
        n == NRegions(dv)
        orientation == IF IsNone(ex.orientation) THEN OrientationList(dv)
                       ELSE ex.orientation.val
    IN  IF n < m
        THEN \* self._get_new_shape_color: the layer defines no such method
             [err |-> "AttributeError", dv |-> dv, events |-> <<>>]
        ELSE LET r == RegionAdd(EmptyRegionList, cur, PlainData(ex.items),
                                List(SubSeq(orientation, 1, m)),
                                List(SubSeq(EdgeWidths(dv), 1, m)),
                                List(SubSeq(dv.edge_color, 1, m)),
                                List(SubSeq(dv.face_color, 1, m)),
                                List(SubSeq(ZIndices(dv), 1, m)))
             IN  [err |-> "none", dv |-> r.dv,
                  events |-> r.events \o <<DataEvent(r.dv)>>]

DataArgs ==
    UNION {{PlainData(NewItems(m))} \cup
           {[items |-> NewItems(m), orientation |-> List(o)] :
                o \in SeqsOfLen(Orientations, m)} : m \in 0..MaxRegions}

InitData == \E layer \in StyledLayers : InitFrom(layer)

SetData ==
    \E data \in DataArgs :
        LET r == DataSetter(data_view, Cur, data)
        IN  /\ data_view' = r.dv
            /\ err' = r.err
            /\ events' = r.events
            /\ op' = [name |-> "data", arg |-> data]
            /\ UNCHANGED <<selected_data, current_edge_width, current_edge_color,
                           current_face_color, allow_thumbnail_update, block_depth,
                           centroidVars, highlightVars, windowVars>>

NextData == SetData

SpecData == InitData /\ [][NextData]_vars

SameAttributes(dv1, i, dv2, j) ==
    /\ dv1.regions[i].edge_width = dv2.regions[j].edge_width
    /\ dv1.regions[i].z_index = dv2.regions[j].z_index
    /\ dv1.edge_color[i] = dv2.edge_color[j]
    /\ dv1.face_color[i] = dv2.face_color[j]

\* C2: assigning m regions to Region.data on a layer of n regions leaves
\* exactly m regions; region i < min(n, m) keeps its edge width, z-index and
\* colours; each region added beyond n gets edge width 1, z-index 0 and the
\* layer's current edge and face colour.
DataSetterResizes ==
    [][op'.name = "data" =>
        LET n == NRegions(data_view)
            m == Len(op'.arg.items)
        IN  /\ err' = "none"
            /\ NRegions(data_view') = m
            /\ Len(data_view'.edge_color) = m
            /\ Len(data_view'.face_color) = m
            /\ \A i \in 1..MinOf(n, m) : SameAttributes(data_view', i, data_view, i)
            /\ \A i \in (n + 1)..m :
                  /\ data_view'.regions[i].edge_width = 1
                  /\ data_view'.regions[i].z_index = 0
                  /\ data_view'.edge_color[i] = current_edge_color
                  /\ data_view'.face_color[i] = current_face_color]_vars

\* the same statement for the assignments that do not grow the layer
DataSetterShrinks ==
    [][(op'.name = "data" /\ Len(op'.arg.items) <= NRegions(data_view)) =>
        LET m == Len(op'.arg.items)
        IN  /\ err' = "none"
            /\ NRegions(data_view') = m
            /\ DataList(data_view') = op'.arg.items
            /\ Len(data_view'.edge_color) = m
            /\ Len(data_view'.face_color) = m
            /\ \A i \in 1..m : SameAttributes(data_view', i, data_view, i)]_vars

\* ----------------------------------------------------------- Region.add call
\* data: k plain items, or k items each carrying its orientation
AddDataArgs ==
    UNION {{PlainData(NewItems(k))} \cup
           {[items |-> NewItems(k), orientation |-> List(o)] :
                o \in SeqsOfLen(Orientations, k)} : k \in 0..MaxAdd}
AddOrientationArgs ==
    {Scalar(o) : o \in Orientations} \cup
    {List(s) : s \in SeqsUpTo(Orientations, MaxAdd)}
AddWidthArgs ==
    {NoneArg, Scalar(2)} \cup {List(s) : s \in SeqsUpTo(Widths, MaxAdd)}
AddZIndexArgs ==
    {NoneArg} \cup {Scalar(z) : z \in ZArgs} \cup
    {List(s) : s \in SeqsUpTo({0, 1}, MaxAdd)}
\* edge_color, face_color: both left out, or both given
AddColorArgs == {<<NoneArg, NoneArg>>, <<Scalar("blue"), Scalar("red")>>}

\* the empty layer, and the layers of one region
AddLayers == {StyledLayer(st) : st \in SeqsUpTo(Styles, 1)}

InitAdd == \E layer \in AddLayers : InitFrom(layer)

\* One call of Region.add on the constructed layer.
Add ==
    /\ op.name = "init"
    /\ \E data \in AddDataArgs, orientation \in AddOrientationArgs,
          edge_width \in AddWidthArgs, z_index \in AddZIndexArgs,
          color \in AddColorArgs :
        LET r == RegionAdd(data_view, Cur, data, orientation, edge_width,
                           color[1], color[2], z_index)
        IN  /\ data_view' = r.dv
            /\ err' = r.err
            /\ events' = r.events
            /\ op' = [name |-> "add", data |-> data, orientation |-> orientation,
                      edge_width |-> edge_width, edge_color |-> color[1],
                      face_color |-> color[2], z_index |-> z_index,
                      n_before |-> NRegions(data_view)]
            /\ UNCHANGED <<selected_data, current_edge_width, current_edge_color,
                           current_face_color, allow_thumbnail_update, block_depth,
                           centroidVars, highlightVars, windowVars>>

NextAdd == Add

SpecAdd == InitAdd /\ [][NextAdd]_vars

\* the regions the last call of add appended, as positions of the data view
Added == (op.n_before + 1)..NRegions(data_view)

\* C4: when the items of data carry their orientation, each added region
\* has the orientation its item carries, not the keyword's.
AddUsesDataOrientation ==
    (op.name = "add" /\ IsList(op.data.orientation)) =>
        \A i \in Added :
            data_view.regions[i].orientation = op.data.orientation.val[i - op.n_before]

\* C5: add with a scalar z_index z gives every added region z-index z.
AddUsesScalarZIndex ==
    (op.name = "add" /\ op.z_index.kind = "scalar") =>
        \A i \in Added : data_view.regions[i].z_index = op.z_index.val

\* the list arguments that bound the zip of _add_regions: orientation,
\* edge_width, and z_index unless it is the empty list (falsy, replaced)
AddListLengths ==
    (IF IsList(op.orientation) THEN {Len(op.orientation.val)} ELSE {}) \cup
    (IF IsList(op.edge_width) THEN {Len(op.edge_width.val)} ELSE {}) \cup
    (IF IsList(op.z_index) /\ Len(op.z_index.val) > 0
     THEN {Len(op.z_index.val)} ELSE {})

ValidIndices(dv) == 0..(NRegions(dv) - 1)

\* rows of a colour array left by np.delete(array, index, axis=0)
DeleteRows(rows, index) ==
    LET keep == {i \in 1..Len(rows) : (i - 1) \notin index}
        pos(j) == CHOOSE i \in keep : Cardinality({x \in keep : x < i}) = j - 1
    IN  [j \in 1..Cardinality(keep) |-> rows[pos(j)]]

\* a loop that removes in ascending order, so later indices have shifted
RECURSIVE RemoveAscending(_, _)
RemoveAscending(dv, index) ==
    IF index = {} THEN dv
    ELSE LET i == SetMin(index)
         IN  RemoveAscending(ListRemove(dv, i), index \ {i})

\* for ind in sorted(index, reverse=True): self._data_view.remove(ind)
RECURSIVE RemoveDescending(_, _)
RemoveDescending(dv, index) ==
    IF index = {} THEN dv
    ELSE LET i == SetMax(index)
         IN  RemoveDescending(ListRemove(dv, i), index \ {i})

\* Region.remove_selected.  An index past the end is the first one the loop
\* meets (it runs from the highest index down) and list removal raises.
RemoveSelected(dv, selected) ==
    IF selected # {} /\ SetMax(selected) >= NRegions(dv)
    THEN [err |-> "IndexError", dv |-> dv, selected |-> selected, events |-> <<>>]
    ELSE LET dv1 == RemoveDescending(dv, selected)
             dv2 == IF selected # {}
                    THEN [dv1 EXCEPT !.edge_color = DeleteRows(dv.edge_color, selected),
                                     !.face_color = DeleteRows(dv.face_color, selected)]
                    ELSE dv1
         IN  [err |-> "none", dv |-> dv2, selected |-> {},
              events |-> <<DataEvent(dv2)>>]

\* z-index handed to the selected regions by move_to_front / move_to_back
NewFrontZNoStep(dv) == SetMax(ZSet(dv))
NewFrontZ(dv) == SetMax(ZSet(dv)) + 1
NewBackZNoStep(dv) == SetMin(ZSet(dv))
NewBackZ(dv) == SetMin(ZSet(dv)) - 1

\* for index in self.selected_data: update_z_index(index, new_z_index)
RECURSIVE MoveSelected(_, _, _)
MoveSelected(dv, done, z) ==
    IF done = {} THEN dv
    ELSE LET i == SetMin(done)
         IN  MoveSelected(ListUpdateZIndex(dv, i, z), done \ {i}, z)

\* The outcomes of the loop of move_to_front / move_to_back.  A set is
\* iterated in no promised order: when it holds an index past the end, any
\* of the valid indices may have been updated before the IndexError.
MoveOutcomes(dv, selected, z) ==
    IF selected \subseteq ValidIndices(dv)
    THEN {[err |-> "none", dv |-> MoveSelected(dv, selected, z)]}
    ELSE {[err |-> "IndexError", dv |-> MoveSelected(dv, done, z)] :
            done \in SUBSET (selected \cap ValidIndices(dv))}

SelectionArgs == SUBSET (0..(MaxRegions - 1))

\* layers of equal z-indices (the defaults) and of distinct ones
OrderLayers ==
    DefaultLayers \cup
    {StyledLayer([i \in 1..k |-> StyleCycle[((i - 1) % Len(StyleCycle)) + 1]]) :
        k \in 0..MaxRegions}

InitOrder == \E layer \in OrderLayers : InitFrom(layer)

\* Region.selected_data setter
SetSelectedData ==
    \E selected \in SelectionArgs :
        /\ selected_data' = selected
        /\ op' = [name |-> "selected_data"]
        /\ err' = "none"
        /\ events' = <<>>
        /\ UNCHANGED <<data_view, current_edge_width, current_edge_color,
                       current_face_color, allow_thumbnail_update, block_depth,
                       centroidVars, highlightVars, windowVars>>

OrderFrame ==
    UNCHANGED <<current_edge_width, current_edge_color, current_face_color,
                allow_thumbnail_update, block_depth, centroidVars, highlightVars, windowVars>>

\* Region.move_to_front
MoveToFront ==
    /\ op' = [name |-> "move_to_front", selected |-> selected_data,
              n_before |-> NRegions(data_view)]
    /\ events' = <<>>
    /\ OrderFrame
    /\ UNCHANGED selected_data
    /\ IF selected_data = {}
       THEN err' = "none" /\ UNCHANGED data_view
       ELSE IF NRegions(data_view) = 0
       THEN \* max() of an empty sequence
            err' = "ValueError" /\ UNCHANGED data_view
       ELSE /\ NewFrontZ(data_view) <= MaxZ
            /\ \E r \in MoveOutcomes(data_view, selected_data, NewFrontZ(data_view)) :
                  err' = r.err /\ data_view' = r.dv

\* Region.move_to_back
MoveToBack ==
    /\ op' = [name |-> "move_to_back", selected |-> selected_data,
              n_before |-> NRegions(data_view)]
    /\ events' = <<>>
    /\ OrderFrame
    /\ UNCHANGED selected_data
    /\ IF selected_data = {}
       THEN err' = "none" /\ UNCHANGED data_view
       ELSE IF NRegions(data_view) = 0
       THEN err' = "ValueError" /\ UNCHANGED data_view
       ELSE /\ NewBackZ(data_view) >= -MaxZ
            /\ \E r \in MoveOutcomes(data_view, selected_data, NewBackZ(data_view)) :
                  err' = r.err /\ data_view' = r.dv

\* Region._finish_drawing; the selection is emptied by the caller's result
FinishDrawing ==
    /\ drag_box' = None
    /\ is_selecting' = FALSE
    /\ hover_value' = <<None, None>>
    /\ UNCHANGED selected_box

\* Region.remove_selected
DoRemoveSelected ==
    LET r == RemoveSelected(data_view, selected_data)
    IN  /\ data_view' = r.dv
        /\ selected_data' = r.selected
        /\ err' = r.err
        /\ events' = r.events
        /\ op' = [name |-> "remove_selected", selected |-> selected_data,
                  n_before |-> NRegions(data_view)]
        /\ IF r.err = "none" THEN FinishDrawing ELSE UNCHANGED dragVars
        /\ UNCHANGED <<current_edge_width, current_edge_color, current_face_color,
                       allow_thumbnail_update, block_depth, centroidVars,
                       modeVars, storedVars, windowVars>>

NextOrder == SetSelectedData \/ MoveToFront \/ MoveToBack \/ DoRemoveSelected

SpecOrder == InitOrder /\ [][NextOrder]_vars

Z(dv, i) == dv.regions[i + 1].z_index
Unselected(dv, selected) == ValidIndices(dv) \ selected

\* the regions outside the selection are exactly as they were
UnselectedUntouched ==
    /\ NRegions(data_view') = NRegions(data_view)
    /\ data_view'.edge_color = data_view.edge_color
    /\ data_view'.face_color = data_view.face_color
    /\ \A j \in Unselected(data_view, selected_data) :
          data_view'.regions[j + 1] = data_view.regions[j + 1]

\* C7: after move_to_front with a non-empty selection (of regions the layer
\* holds) every selected region has a z-index above that of every
\* non-selected region, and non-selected regions keep theirs; with an empty
\* selection no z-index changes.
MoveToFrontRaisesSelection ==
    [][op'.name = "move_to_front" =>
        /\ UnselectedUntouched
        /\ selected_data = {} => (data_view' = data_view /\ err' = "none")
        /\ (selected_data # {} /\ selected_data \subseteq ValidIndices(data_view)) =>
              /\ err' = "none"
              /\ selected_data' = selected_data
              /\ \A i \in selected_data :
                    \A j \in Unselected(data_view, selected_data) :
                        Z(data_view', i) > Z(data_view', j)]_vars

\* region 0 was moved in front of two regions, one of which held the top
MoveToFrontSeen ==
    /\ op.name = "move_to_front" /\ err = "none"
    /\ op.selected = {0} /\ op.n_before = 3
    /\ Z(data_view, 0) = 2 /\ Z(data_view, 1) = 1 /\ Z(data_view, 2) = 0

\* C8: after move_to_back with a non-empty selection (of regions the layer
\* holds) every selected region has a z-index below that of every
\* non-selected region, and non-selected regions keep theirs; with an empty
\* selection no z-index changes.
MoveToBackLowersSelection ==
    [][op'.name = "move_to_back" =>
        /\ UnselectedUntouched
        /\ selected_data = {} => (data_view' = data_view /\ err' = "none")
        /\ (selected_data # {} /\ selected_data \subseteq ValidIndices(data_view)) =>
              /\ err' = "none"
              /\ selected_data' = selected_data
              /\ \A i \in selected_data :
                    \A j \in Unselected(data_view, selected_data) :
                        Z(data_view', i) < Z(data_view', j)]_vars

\* regions 1 and 2 were moved behind region 0, which held the bottom
MoveToBackSeen ==
    /\ op.name = "move_to_back" /\ err = "none"
    /\ op.selected = {1, 2} /\ op.n_before = 3
    /\ Z(data_view, 0) = 0 /\ Z(data_view, 1) = -1 /\ Z(data_view, 2) = -1

\* C9: remove_selected (with a selection of regions the layer holds) removes
\* exactly the selected regions, the others keep their order, attributes and
\* colours, selected_data is left empty and one data event carries the
\* reduced data; with an empty selection the regions are unchanged.
RemoveSelectedRemovesSelection ==
    [][(op'.name = "remove_selected" /\ selected_data \subseteq ValidIndices(data_view)) =>
        LET kept == {i \in 1..NRegions(data_view) : (i - 1) \notin selected_data}
            m == NRegions(data_view')
        IN  /\ err' = "none"
            /\ m = Cardinality(kept)
            /\ Len(data_view'.edge_color) = m
            /\ Len(data_view'.face_color) = m
            /\ \E f \in [1..m -> kept] :
                  /\ \A a, b \in 1..m : a < b => f[a] < f[b]
                  /\ \A a \in 1..m :
                        /\ data_view'.regions[a] = data_view.regions[f[a]]
                        /\ data_view'.edge_color[a] = data_view.edge_color[f[a]]
                        /\ data_view'.face_color[a] = data_view.face_color[f[a]]
            /\ selected_data' = {}
            /\ events' = <<DataEvent(data_view')>>
            /\ selected_data = {} => data_view' = data_view]_vars

\* the middle one of three regions was removed
RemoveSelectedSeen ==
    /\ op.name = "remove_selected" /\ err = "none"
    /\ op.selected = {1} /\ op.n_before = 3
    /\ DataList(data_view) = <<1, 3>>
    /\ data_view.edge_color[1] # data_view.edge_color[2]
    /\ selected_data = {}

\* ------------------------------------------------ colours and the thumbnail
HasEvent(n) == \E i \in 1..Len(events) : events[i].name = n

\* Region._set_color(color, attribute): the colour, broadcast to every region
SetColor(dv, color, attribute) ==
    LET rows == IF NRegions(dv) > 0 THEN BroadcastColors(NRegions(dv), color) ELSE <<>>
    IN  IF attribute = "edge" THEN [dv EXCEPT !.edge_color = rows]
        ELSE [dv EXCEPT !.face_color = rows]

\* Region._update_thumbnail: builds the thumbnail and assigns it; the flag
\* _allow_thumbnail_update is not read.
UpdateThumbnail(allow) == <<PlainEvent("thumbnail")>>

ColorArgs == {Scalar(c) : c \in Colors}

InitThumb == \E layer \in StyledLayers : InitFrom(layer)

ThumbFrame ==
    UNCHANGED <<selected_data, current_edge_width, current_edge_color,
                current_face_color, centroidVars, highlightVars, windowVars>>

\* with layer.block_thumbnail_update(): entering the context
EnterBlock ==
    /\ block_depth < MaxBlockDepth
    /\ allow_thumbnail_update' = FALSE
    /\ block_depth' = block_depth + 1
    /\ op' = [name |-> "enter_block"]
    /\ err' = "none"
    /\ events' = <<>>
    /\ ThumbFrame
    /\ UNCHANGED data_view

\* leaving the context
ExitBlock ==
    /\ block_depth > 0
    /\ allow_thumbnail_update' = TRUE
    /\ block_depth' = block_depth - 1
    /\ op' = [name |-> "exit_block"]
    /\ err' = "none"
    /\ events' = <<>>
    /\ ThumbFrame
    /\ UNCHANGED data_view

\* Region.edge_color setter
SetEdgeColor ==
    \E color \in ColorArgs :
        /\ data_view' = SetColor(data_view, color, "edge")
        /\ events' = <<PlainEvent("edge_color")>> \o UpdateThumbnail(allow_thumbnail_update)
        /\ op' = [name |-> "edge_color", arg |-> color]
        /\ err' = "none"
        /\ ThumbFrame
        /\ UNCHANGED <<allow_thumbnail_update, block_depth>>

\* Region.face_color setter
SetFaceColor ==
    \E color \in ColorArgs :
        /\ data_view' = SetColor(data_view, color, "face")
        /\ events' = <<PlainEvent("face_color")>> \o UpdateThumbnail(allow_thumbnail_update)
        /\ op' = [name |-> "face_color", arg |-> color]
        /\ err' = "none"
        /\ ThumbFrame
        /\ UNCHANGED <<allow_thumbnail_update, block_depth>>

NextThumb == EnterBlock \/ ExitBlock \/ SetEdgeColor \/ SetFaceColor

SpecThumb == InitThumb /\ [][NextThumb]_vars

CurHighlight ==
    HighlightState(mode, selected_data, interactive, help, selected_data_stored,
                   hover_value, value_stored, drag_box, drag_box_stored)

Emits(evs, n) == \E i \in 1..Len(evs) : evs[i].name = n

\* the layer's fields after a call that left it as hs and emitted evs
HighlightAssigned(hs, evs) ==
    /\ mode' = hs.mode
    /\ selected_data' = hs.selected_data
    /\ interactive' = hs.interactive
    /\ help' = hs.help
    /\ selected_data_stored' = hs.selected_data_stored
    /\ hover_value' = hs.value
    /\ value_stored' = hs.value_stored
    /\ drag_box' = hs.drag_box
    /\ drag_box_stored' = hs.drag_box_stored
    /\ highlighted' = IF Emits(evs, "highlight") THEN Shown(hs) ELSE highlighted
    /\ events' = evs
    /\ err' = "none"

HighlightFrame ==
    UNCHANGED <<data_view, current_edge_width, current_edge_color,
                current_face_color, allow_thumbnail_update, block_depth,
                is_selecting, selected_box, centroidVars, windowVars>>

\* Region(None) and layers of one to MaxRegions regions, each of its own style
HighlightLayers ==
    {StyledLayer([i \in 1..k |-> StyleCycle[((i - 1) % Len(StyleCycle)) + 1]]) :
        k \in 0..MaxRegions}

InitHighlight == \E layer \in HighlightLayers : InitFrom(layer)

\* layer.mode = m
SetMode ==
    \E m \in Modes :
        LET r == ModeSetter(CurHighlight, m)
        IN  /\ HighlightAssigned(r.hs, r.events)
            /\ op' = [name |-> "mode", arg |-> m, old |-> mode,
                      highlighted_before |-> highlighted]
            /\ HighlightFrame

\* layer._set_highlight(force=force)
CallSetHighlight ==
    \E force \in BOOLEAN :
        LET r == SetHighlight(CurHighlight, force)
        IN  /\ HighlightAssigned(r.hs, r.events)
            /\ op' = [name |-> "set_highlight", force |-> force]
            /\ HighlightFrame

\* layer._compute_vertices_and_box()
CallComputeVerticesAndBox ==
    LET r == ComputeVerticesAndBox(mode, selected_data, is_selecting,
                                   selected_box, drag_box)
    IN  /\ op' = [name |-> "compute_vertices_and_box", shows |-> r.shows,
                  width |-> r.width]
        /\ err' = r.err
        /\ events' = <<>>
        /\ UNCHANGED <<regionVars, centroidVars, highlightVars, windowVars>>

NextHighlight ==
    SetMode \/ SetSelectedData \/ CallSetHighlight \/ CallComputeVerticesAndBox
    \/ DoRemoveSelected

SpecHighlight == InitHighlight /\ [][NextHighlight]_vars

\* C11: immediately after construction, whatever the arguments, the mode is
\* PAN_ZOOM, the layer is interactive, its help is empty and nothing is
\* selected.
ConstructedInPanZoom ==
    op.name = "init" =>
        /\ mode = "pan_zoom"
        /\ interactive
        /\ help = ""
        /\ selected_data = {}

\* a layer constructed with regions of several styles
ConstructedWithRegions ==
    /\ op.name = "init"
    /\ NRegions(data_view) > 1
    /\ \E i, j \in 1..NRegions(data_view) :
          data_view.regions[i].z_index # data_view.regions[j].z_index
    /\ mode = "pan_zoom"

\* the last call ran _set_highlight: a direct call, or a change of mode
SetHighlightCalled ==
    \/ op.name = "set_highlight"
    \/ op.name = "mode" /\ op.arg # op.old

Forced == op.name = "set_highlight" /\ op.force

\* C13, as stated: _set_highlight emits the highlight event exactly when
\* force is True or selected_data, _value or _drag_box differs from what it
\* was at the previous emission, and an emission stores the current values.
HighlightFollowsLastEmission ==
    [][SetHighlightCalled' =>
          /\ Emits(events', "highlight") <=>
                (Forced' \/ <<selected_data', hover_value', drag_box'>> # highlighted)
          /\ Emits(events', "highlight") =>
                <<selected_data_stored', value_stored', drag_box_stored'>>
                    = <<selected_data', hover_value', drag_box'>>]_vars

\* what _set_highlight compares with: the stored fields, of which a change of
\* mode has emptied the selection
StoredAtCall ==
    <<IF op'.name = "mode" THEN {} ELSE selected_data_stored,
      value_stored, drag_box_stored>>

\* C13, amended: _set_highlight emits the highlight event exactly when force
\* is True or selected_data, _value or _drag_box differs from its stored
\* counterpart, which an emission sets to the current value and a change of
\* mode resets to the empty selection; without an emission the stored values
\* stay, so a second call without force and without a change emits nothing.
HighlightFollowsStored ==
    [][SetHighlightCalled' =>
          /\ Emits(events', "highlight") <=>
                (Forced' \/ <<selected_data', hover_value', drag_box'>> # StoredAtCall)
          /\ Emits(events', "highlight") =>
                <<selected_data_stored', value_stored', drag_box_stored'>>
                    = <<selected_data', hover_value', drag_box'>>
          /\ ~Emits(events', "highlight") =>
                <<selected_data_stored', value_stored', drag_box_stored'>>
                    = StoredAtCall
          /\ (<<selected_data_stored, value_stored, drag_box_stored>>
                  = <<selected_data, hover_value, drag_box>>
              /\ op'.name = "set_highlight" /\ ~op'.force) =>
                ~Emits(events', "highlight")]_vars

\* a change of mode re-emitted the highlight of a selection that was already
\* the one highlighted
HighlightReEmittedOnModeChange ==
    /\ op.name = "mode"
    /\ op.arg # op.old
    /\ HasEvent("highlight")
    /\ selected_data # {}
    /\ op.highlighted_before = <<selected_data, hover_value, drag_box>>

\* C14: _compute_vertices_and_box returns without error in every reachable
\* state; it shows nothing when nothing is selected and no drag selection is
\* in progress, and when regions are selected outside SELECT mode; an outline
\* of width 1.5 is returned only in SELECT mode with a selection or during a
\* drag selection with nothing selected.
ComputeVerticesAndBoxReturns ==
    op.name = "compute_vertices_and_box" =>
        /\ err = "none"
        /\ ((selected_data = {} /\ ~is_selecting)
            \/ (selected_data # {} /\ mode # "select")) =>
               (op.shows = "nothing" /\ op.width = 0)
        /\ op.width = 15 =>
               ((mode = "select" /\ selected_data # {})
                \/ (is_selecting /\ selected_data = {}))

\* outside SELECT mode with a selection the call returns, with nothing to show
ComputeVerticesAndBoxOutsideSelect ==
    (op.name = "compute_vertices_and_box" /\ ~(mode = "select" /\ selected_data # {})) =>
        (err = "none" /\ op.shows = "nothing" /\ op.width = 0)

\* ------------------------------------------- main window: status throttling
\* The handler viewer._update_status_bar_from_cursor, as a callback of the
\* cursor's position event ("direct") or of the throttler's triggered signal
\* ("status"); "throttle" is status_throttler.throttle.
\* Times are in ms.  since_update is the time since the last update made
\* through the throttler.
ElapseSteps == {5, 10, 25}

WindowBuilt == "throttle" \in cursor_callbacks

ThrottleCursorKeepsDirect(callbacks) == callbacks \cup {"throttle"}
\* _QtMainWindow._throttle_cursor_to_status_connection: the callbacks of
\* viewer.cursor.events.position afterwards
ThrottleCursorToStatusConnection(callbacks) ==
    (callbacks \ {"direct"}) \cup {"throttle"}

\* the throttler and the record of the handler's calls
ThrottlerState(left, pending, since, calls) ==
    [timer_left |-> left, has_pending |-> pending, since_update |-> since,
     status_calls |-> calls]

CurThrottler == ThrottlerState(timer_left, has_pending, since_update, status_calls)

ThrottlerAssigned(t) ==
    /\ timer_left' = t.timer_left
    /\ has_pending' = t.has_pending
    /\ since_update' = t.since_update
    /\ status_calls' = t.status_calls

\* QSignalThrottler._emitTriggered: clear the pending flag, emit `triggered`
\* to its callbacks, start the timer
EmitTriggered(t, callbacks) ==
    LET t1 == [t EXCEPT !.has_pending = FALSE]
        t2 == IF "status" \in callbacks
              THEN [t1 EXCEPT !.status_calls = Append(@, "throttler"),
                              !.since_update = 0]
              ELSE t1
    IN  [t2 EXCEPT !.timer_left = Timeout]

\* QSignalThrottler.throttle, for a throttler of the leading policy: emit at
\* once when the timer is not running, else leave the emission pending
Throttle(t, callbacks) ==
    IF t.timer_left = Inactive
    THEN EmitTriggered([t EXCEPT !.has_pending = TRUE], callbacks)
    ELSE [t EXCEPT !.has_pending = TRUE]

\* the position event calls the handler itself
DirectCall(t) == [t EXCEPT !.status_calls = Append(@, "direct")]

\* the position event calls its callbacks, the one connected last first
PositionEvent(t, callbacks, triggered) ==
    LET t1 == IF "throttle" \in callbacks THEN Throttle(t, triggered) ELSE t
    IN  IF "direct" \in callbacks THEN DirectCall(t1) ELSE t1

\* QSignalThrottler._maybeEmitTriggered, on the timeout of the single-shot timer
MaybeEmitTriggered(t, callbacks) ==
    IF t.has_pending
    THEN EmitTriggered(t, callbacks)
    ELSE [t EXCEPT !.timer_left = Inactive]

WindowFrame == UNCHANGED <<regionVars, centroidVars, highlightVars>>

\* A viewer without a window: its model may or may not have connected the
\* handler to the cursor itself.
InitWindow ==
    /\ InitRegionEmpty
    /\ centroids_data = <<>>
    /\ centroids_color = <<>>
    /\ cursor_callbacks \in {{}, {"direct"}}
    /\ triggered_callbacks = {}
    /\ timer_left = Inactive
    /\ has_pending = FALSE
    /\ since_update = Timeout
    /\ n_moves = 0
    /\ status_calls = <<>>

\* _QtMainWindow.__init__: a throttler of 50 ms, then the connections
ConstructWindow ==
    /\ ~WindowBuilt
    /\ cursor_callbacks' = ThrottleCursorToStatusConnection(cursor_callbacks)
    /\ triggered_callbacks' = {"status"}
    /\ timer_left' = Inactive
    /\ has_pending' = FALSE
    /\ op' = [name |-> "window"]
    /\ err' = "none"
    /\ events' = <<>>
    /\ UNCHANGED <<since_update, n_moves, status_calls>>
    /\ WindowFrame

\* viewer.cursor.position = ...
CursorMove ==
    /\ n_moves < MaxMoves
    /\ n_moves' = n_moves + 1
    /\ ThrottlerAssigned(PositionEvent(CurThrottler, cursor_callbacks,
                                       triggered_callbacks))
    /\ op' = [name |-> "cursor_position"]
    /\ err' = "none"
    /\ events' = <<>>
    /\ UNCHANGED <<cursor_callbacks, triggered_callbacks>>
    /\ WindowFrame

\* the throttler's timer times out
TimerTimeout ==
    /\ timer_left = 0
    /\ ThrottlerAssigned(MaybeEmitTriggered(CurThrottler, triggered_callbacks))
    /\ op' = [name |-> "timeout", emitted |-> has_pending]
    /\ err' = "none"
    /\ events' = <<>>
    /\ UNCHANGED <<cursor_callbacks, triggered_callbacks, n_moves>>
    /\ WindowFrame

\* time passes; a timer that is due fires when the event loop gets to it
Elapse ==
    \E d \in ElapseSteps :
        /\ since_update < Timeout \/ (timer_left # Inactive /\ timer_left > 0)
        /\ since_update' = IF since_update + d > Timeout THEN Timeout
                           ELSE since_update + d
        /\ timer_left' = IF timer_left = Inactive THEN Inactive
                         ELSE IF timer_left < d THEN 0 ELSE timer_left - d
        /\ op' = [name |-> "elapse"]
        /\ err' = "none"
        /\ events' = <<>>
        /\ UNCHANGED <<cursor_callbacks, triggered_callbacks, has_pending, n_moves,
                       status_calls>>
        /\ WindowFrame

NextWindow == ConstructWindow \/ CursorMove \/ TimerTimeout \/ Elapse

\* The event loop runs: time passes and a due timer fires.
SpecWindow ==
    InitWindow /\ [][NextWindow]_vars /\ WF_vars(TimerTimeout) /\ WF_vars(Elapse)

CentroidsInitializeColor(color, n_lines) ==
    IF n_lines > 0 THEN BroadcastColors(n_lines, color) ELSE <<>>

\* Centroids.data setter.  The rows of the data are opaque: only their
\* number is used.
CentroidsDataSetter(data, color, value) ==
    LET n == Len(data)
        n_new == Len(value)
    IN  IF n > n_new
        THEN [err |-> "none", data |-> value,
              color |-> CentroidsInitializeColor(List(SubSeq(color, 1, n_new)), n_new),
              events |-> <<PlainEvent("color")>>]
        ELSE IF n < n_new
        THEN IF n = 0
             THEN \* self.color[-1] on an array of no rows
                  [err |-> "IndexError", data |-> data, color |-> color,
                   events |-> <<>>]
             ELSE [err |-> "none", data |-> value,
                   color |-> CentroidsInitializeColor(
                                List(color \o [i \in 1..(n_new - n) |-> color[n]]), n_new),
                   events |-> <<PlainEvent("color")>>]
        ELSE [err |-> "none", data |-> value,
              color |-> CentroidsInitializeColor(List(color), n_new),
              events |-> <<PlainEvent("color")>>]

CentroidsColorArgs ==
    {Scalar(c) : c \in Colors} \cup {List(s) : s \in SeqsUpTo(Colors, MaxCentroids)}

\* Centroids(data, color=...): the Centroids layer as constructed; the
\* Region layer is empty.
InitCentroids ==
    \E n \in 0..MaxCentroids, color \in CentroidsColorArgs :
        /\ IsList(color) => Len(color.val) = n
        /\ centroids_data = [i \in 1..n |-> i]
        /\ centroids_color = CentroidsInitializeColor(color, n)
        /\ InitRegionEmpty
        /\ NoWindow

CentroidsSetData ==
    \E m \in 0..MaxCentroids :
        LET r == CentroidsDataSetter(centroids_data, centroids_color, NewItems(m))
        IN  /\ centroids_data' = r.data
            /\ centroids_color' = r.color
            /\ err' = r.err
            /\ events' = r.events
            /\ op' = [name |-> "centroids_data", arg |-> NewItems(m)]
            /\ UNCHANGED <<regionVars, highlightVars, windowVars>>

\* Centroids.color setter
CentroidsSetColor ==
    \E color \in CentroidsColorArgs :
        /\ centroids_color' = CentroidsInitializeColor(color, Len(centroids_data))
        /\ err' = "none"
        /\ events' = <<PlainEvent("color")>>
        /\ op' = [name |-> "centroids_color", arg |-> color]
        /\ UNCHANGED <<centroids_data, regionVars, highlightVars, windowVars>>

NextCentroids == CentroidsSetData \/ CentroidsSetColor

SpecCentroids == InitCentroids /\ [][NextCentroids]_vars

\* C3: assigning n_new centroids to Centroids.data on a layer of n centroids
\* succeeds for every n >= 0 and leaves n_new colour rows: the first n_new
\* rows when n_new < n; the n rows followed by n_new - n copies of the
\* previous last colour when n_new > n.
CentroidsDataResizesColor ==
    [][op'.name = "centroids_data" =>
        LET n == Len(centroids_data)
            n_new == Len(op'.arg)
        IN  /\ err' = "none"
            /\ centroids_data' = op'.arg
            /\ Len(centroids_color') = n_new
            /\ n_new < n => centroids_color' = SubSeq(centroids_color, 1, n_new)
            /\ n_new > n =>
                  /\ SubSeq(centroids_color', 1, n) = centroids_color
                  /\ \A i \in (n + 1)..n_new : centroids_color'[i] = centroids_color[n]]_vars

\* the same statement for a layer that holds at least one centroid
CentroidsDataResizesColorNonEmpty ==
    [][(op'.name = "centroids_data" /\ Len(centroids_data) > 0) =>
        LET n == Len(centroids_data)
            n_new == Len(op'.arg)
        IN  /\ err' = "none"
            /\ centroids_data' = op'.arg
            /\ Len(centroids_color') = n_new
            /\ n_new < n => centroids_color' = SubSeq(centroids_color, 1, n_new)
            /\ n_new > n =>
                  /\ SubSeq(centroids_color', 1, n) = centroids_color
                  /\ \A i \in (n + 1)..n_new : centroids_color'[i] = centroids_color[n]]_vars

====
